---- MODULE Spec2Model ----
(***************************************************************************)
(* Model of EstrategiaCrucesEMAs (multi_crypto_ema_strategy.py): the VWAP  *)
(* loop, the indicator columns, the signal scan, the performance replay    *)
(* and the per-symbol runner.                                              *)
(*                                                                         *)
(* Numbers are binary floating-point values with round-to-nearest-even.    *)
(* A finite value is a reduced fraction <<n, d>> with d > 0; NaN is        *)
(* <<0, 0>>; +inf / -inf are <<1, 0>> / <<-1, 0>>.  The build computes in  *)
(* binary64 (53 significant bits); the model rounds every arithmetic       *)
(* result to Precision significant bits.                                   *)
(***************************************************************************)
EXTENDS Integers, Sequences, FiniteSets, TLC

----------------------------------------------------------------------------
(* Bounds of the model *)

Precision == 6
MaxSenales == 4
MaxBars == 3
MaxFlat == 33
MaxTail == 2
NumSymbols == 3

----------------------------------------------------------------------------
(* Floating-point arithmetic *)

NaN == <<0, 0>>
None == <<>>

Abs(n) == IF n < 0 THEN -n ELSE n

Sgn(n) == IF n < 0 THEN -1 ELSE IF n > 0 THEN 1 ELSE 0

RECURSIVE GCD(_, _)
GCD(a, b) == IF b = 0 THEN a ELSE GCD(b, a % b)

RECURSIVE Pow2(_)
Pow2(e) == IF e = 0 THEN 1 ELSE 2 * Pow2(e - 1)

\* the reduced fraction n/d (d # 0)
Frac(n, d) ==
  LET g == GCD(Abs(n), Abs(d))
  IN  <<Sgn(d) * (n \div g), Abs(d) \div g>>

Num(k) == <<k, 1>>

IsNaN(x) == x = NaN

IsFinite(x) == x[2] > 0

\* exact (unrounded) results on finite operands
XAdd(x, y) ==
  IF x[2] = y[2] THEN Frac(x[1] + y[1], x[2])
  ELSE Frac(x[1] * y[2] + y[1] * x[2], x[2] * y[2])

XNeg(x) == <<-x[1], x[2]>>

XMul(x, y) == Frac(x[1] * y[1], x[2] * y[2])

XInv(y) == <<Sgn(y[1]) * y[2], Abs(y[1])>>

MantissaMax == Pow2(Precision)

MantissaMin == Pow2(Precision - 1)

\* n/d > 0 rounded to Precision significant bits, ties to even; the result
\* is the rounded mantissa times up/dn, the power of two that scaled n/d
RECURSIVE RoundPos(_, _, _, _)
RoundPos(n, d, up, dn) ==
  IF n >= d * MantissaMax THEN RoundPos(n, 2 * d, 2 * up, dn)
  ELSE IF n < d * MantissaMin THEN RoundPos(2 * n, d, up, 2 * dn)
  ELSE IF 2 * (n % d) > d \/ (2 * (n % d) = d /\ (n \div d) % 2 = 1)
       THEN Frac(((n \div d) + 1) * up, dn)
       ELSE Frac((n \div d) * up, dn)

Round(x) ==
  IF x[1] = 0 THEN <<0, 1>>
  ELSE IF x[1] < 0 THEN XNeg(RoundPos(-x[1], x[2], 1, 1))
  ELSE RoundPos(x[1], x[2], 1, 1)

\* arithmetic on an infinite operand is never reached (prices are positive
\* and every division by a possibly-zero total is guarded); it yields NaN
FAdd(x, y) == IF IsFinite(x) /\ IsFinite(y) THEN Round(XAdd(x, y)) ELSE NaN

FSub(x, y) == IF IsFinite(x) /\ IsFinite(y) THEN Round(XAdd(x, XNeg(y))) ELSE NaN

FMul(x, y) == IF IsFinite(x) /\ IsFinite(y) THEN Round(XMul(x, y)) ELSE NaN

FDiv(x, y) ==
  IF ~(IsFinite(x) /\ IsFinite(y)) THEN NaN
  ELSE IF y[1] = 0 THEN <<Sgn(x[1]), 0>>
  ELSE Round(XMul(x, XInv(y)))

\* comparisons: false as soon as one side is NaN
FLt(x, y) == ~IsNaN(x) /\ ~IsNaN(y) /\ x[1] * y[2] < y[1] * x[2]

FGt(x, y) == FLt(y, x)

FLe(x, y) == ~IsNaN(x) /\ ~IsNaN(y) /\ x[1] * y[2] <= y[1] * x[2]

FGe(x, y) == FLe(y, x)

----------------------------------------------------------------------------
(* State *)

VARIABLES
  pc,                \* control location
  df,                \* bars of the instrument being processed
  ind,               \* indicator columns of df (None before they exist)
  i,                 \* loop index of the running loop
  vwap_values,       \* calcular_vwap: values appended so far
  cumulative_pv,     \* calcular_vwap: running sum of typical_price * volume
  cumulative_volume, \* calcular_vwap: running sum of volume
  senales,           \* signal list (emitted by the scan / given to the replay)
  posicion,          \* calcular_rendimiento: open position or None
  operaciones,       \* calcular_rendimiento: closed trades
  resultado,         \* calcular_rendimiento: returned summary or None
  feed,              \* what the exchange answers for each symbol
  sidx,              \* ejecutar_estrategia: position in self.symbols
  all_dataframes,
  all_senales,
  all_rendimientos

vars == <<pc, df, ind, i, vwap_values, cumulative_pv, cumulative_volume,
          senales, posicion, operaciones, resultado, feed, sidx,
          all_dataframes, all_senales, all_rendimientos>>

----------------------------------------------------------------------------
(* calcular_rendimiento: the replay of a signal list *)

\* the fields of a signal that calcular_rendimiento reads
Senal(tipo, symbol, datetime, precio) ==
  [tipo |-> tipo, symbol |-> symbol, datetime |-> datetime, precio |-> precio]

\* the mutated guard: a COMPRA opens a position even when one is open
EsCompraAbreSiempre(s, pos) == s.tipo = "COMPRA"

\* if señal['tipo'] == 'COMPRA' and posicion is None
EsCompraAbre(s, pos) == s.tipo = "COMPRA" /\ pos = None

\* elif señal['tipo'] == 'VENTA' and posicion is not None and same symbol
EsVentaCierra(s, pos) ==
  s.tipo = "VENTA" /\ pos # None /\ pos[1].symbol = s.symbol

Abrir(s) ==
  <<[entrada |-> s.precio, fecha_entrada |-> s.datetime, symbol |-> s.symbol]>>

\* the mutated return: the price difference is not divided by the entry price
RendimientoSinBase(salida, entrada) == FMul(FSub(salida, entrada), Num(100))

\* (señal['precio'] - posicion['entrada']) / posicion['entrada'] * 100
Rendimiento(salida, entrada) ==
  FMul(FDiv(FSub(salida, entrada), entrada), Num(100))

Cerrar(s, pos) ==
  [symbol |-> s.symbol, entrada |-> pos[1].entrada, salida |-> s.precio,
   fecha_entrada |-> pos[1].fecha_entrada, fecha_salida |-> s.datetime,
   rendimiento |-> Rendimiento(s.precio, pos[1].entrada)]

\* the mutated loop body: a VENTA with no open position records a trade
\* entered at the signal's own price
RendPasoVentaSuelta(st, s) ==
  IF EsCompraAbre(s, st.posicion)
  THEN [posicion |-> Abrir(s), operaciones |-> st.operaciones]
  ELSE IF s.tipo = "VENTA"
  THEN [posicion |-> None,
        operaciones |-> Append(st.operaciones,
           Cerrar(s, IF st.posicion = None THEN Abrir(s) ELSE st.posicion))]
  ELSE st

\* one iteration of "for señal in señales"
RendPaso(st, s) ==
  IF EsCompraAbre(s, st.posicion)
  THEN [posicion |-> Abrir(s), operaciones |-> st.operaciones]
  ELSE IF EsVentaCierra(s, st.posicion)
  THEN [posicion |-> None,
        operaciones |-> Append(st.operaciones, Cerrar(s, st.posicion))]
  ELSE st

\* sum([op['rendimiento'] for op in operaciones]): left to right from 0
RECURSIVE SumaRend(_, _)
SumaRend(ops, n) ==
  IF n = 0 THEN Num(0) ELSE FAdd(SumaRend(ops, n - 1), ops[n].rendimiento)

Ganadoras(ops) ==
  Cardinality({j \in 1..Len(ops) : FGt(ops[j].rendimiento, Num(0))})

\* the dict returned when operaciones is not empty, else None
Resumen(ops) ==
  IF ops # <<>>
  THEN LET rendimiento_total == SumaRend(ops, Len(ops))
       IN  <<[operaciones |-> ops,
              rendimiento_total |-> rendimiento_total,
              num_operaciones |-> Len(ops),
              tasa_acierto |->
                FMul(FDiv(Num(Ganadoras(ops)), Num(Len(ops))), Num(100)),
              rendimiento_promedio |->
                FDiv(rendimiento_total, Num(Len(ops)))]>>
  ELSE None

\* the mutated early return: lists of fewer than 3 signals are rejected
PocasSenalesTres(ss) == Len(ss) < 3

\* if len(señales) < 2: return None
PocasSenales(ss) == Len(ss) < 2

\* operaciones = [], posicion = None
RendInicioEstado == [posicion |-> None, operaciones |-> <<>>]

\* the loop's state after each of the first n signals
RECURSIVE RendBucle(_, _)
RendBucle(ss, n) ==
  IF n = 0 THEN <<>>
  ELSE LET p == RendBucle(ss, n - 1)
       IN  Append(p, RendPaso(IF n = 1 THEN RendInicioEstado ELSE p[n - 1],
                              ss[n]))

\* the whole method, as ejecutar_estrategia calls it
calcular_rendimiento(ss) ==
  IF PocasSenales(ss) THEN None
  ELSE Resumen(RendBucle(ss, Len(ss))[Len(ss)].operaciones)

\* the method entered: early return, or the loop set up
RendInicio ==
  /\ pc = "rend_inicio"
  /\ IF PocasSenales(senales)
     THEN /\ pc' = "rend_fin"
          /\ resultado' = None
          /\ UNCHANGED <<i, posicion, operaciones>>
     ELSE /\ pc' = "rend_bucle"
          /\ i' = 1
          /\ posicion' = None
          /\ operaciones' = <<>>
          /\ UNCHANGED resultado
  /\ UNCHANGED <<df, ind, vwap_values, cumulative_pv, cumulative_volume,
                 senales, feed, sidx, all_dataframes, all_senales,
                 all_rendimientos>>

\* one signal processed
RendSenal ==
  /\ pc = "rend_bucle"
  /\ i <= Len(senales)
  /\ LET st == RendPaso([posicion |-> posicion, operaciones |-> operaciones],
                        senales[i])
     IN  /\ posicion' = st.posicion
         /\ operaciones' = st.operaciones
  /\ i' = i + 1
  /\ UNCHANGED <<pc, df, ind, vwap_values, cumulative_pv, cumulative_volume,
                 senales, resultado, feed, sidx, all_dataframes, all_senales,
                 all_rendimientos>>

\* the loop is over: the summary, or None
RendFin ==
  /\ pc = "rend_bucle"
  /\ i > Len(senales)
  /\ resultado' = Resumen(operaciones)
  /\ pc' = "rend_fin"
  /\ UNCHANGED <<df, ind, i, vwap_values, cumulative_pv, cumulative_volume,
                 senales, posicion, operaciones, feed, sidx, all_dataframes,
                 all_senales, all_rendimientos>>

Tipos == {"COMPRA", "VENTA"}

Precios == {Num(90), Num(100), Num(110)}

\* the signal lists given to the replay: one instrument, ascending datetimes
ListasSenales ==
  UNION {{[j \in 1..n |-> Senal(f[j][1], "X", j, f[j][2])] :
             f \in [1..n -> Tipos \X Precios]} : n \in 0..MaxSenales}

InitRend ==
  /\ pc = "rend_inicio"
  /\ senales \in ListasSenales
  /\ df = <<>>
  /\ ind = None
  /\ i = 0
  /\ vwap_values = <<>>
  /\ cumulative_pv = Num(0)
  /\ cumulative_volume = Num(0)
  /\ posicion = None
  /\ operaciones = <<>>
  /\ resultado = None
  /\ feed = <<>>
  /\ sidx = 0
  /\ all_dataframes = <<>>
  /\ all_senales = <<>>
  /\ all_rendimientos = <<>>

NextRend == RendInicio \/ RendSenal \/ RendFin

SpecRend == InitRend /\ [][NextRend]_vars

----------------------------------------------------------------------------
(* Properties of the replay, checked under SpecRend *)

EnReplay == pc \in {"rend_bucle", "rend_fin"}

\* the signals processed so far (none after the early return)
Procesadas == IF i = 0 THEN {} ELSE 1..(i - 1)

MinDe(S) == CHOOSE m \in S : \A n \in S : m <= n

\* datetimes of the COMPRA signals later than t
ComprasTras(t) ==
  {senales[j].datetime : j \in {n \in 1..Len(senales) :
       senales[n].tipo = "COMPRA" /\ senales[n].datetime > t}}

SenalEn(t) == CHOOSE s \in {senales[j] : j \in 1..Len(senales)} : s.datetime = t

\* entry (price, timestamp) is that of the first COMPRA later than t
EntraEnPrimera(entrada, fecha_entrada, t) ==
  /\ ComprasTras(t) # {}
  /\ fecha_entrada = MinDe(ComprasTras(t))
  /\ entrada = SenalEn(MinDe(ComprasTras(t))).precio

CierreAnterior(j) == IF j = 1 THEN 0 ELSE operaciones[j - 1].fecha_salida

\* C1: at every point of the replay the open position, and every closed
\* trade, carries the price and timestamp of the first COMPRA seen since the
\* previous close (or since the start): a COMPRA processed while a position
\* is open never replaces it.
C1_PrimeraCompra ==
  EnReplay =>
    /\ \A j \in 1..Len(operaciones) :
         EntraEnPrimera(operaciones[j].entrada, operaciones[j].fecha_entrada,
                        CierreAnterior(j))
    /\ posicion # None =>
         EntraEnPrimera(posicion[1].entrada, posicion[1].fecha_entrada,
                        CierreAnterior(Len(operaciones) + 1))

\* a trade was closed although a later COMPRA at another price arrived
\* while its position was open
C1_Witness ==
  /\ pc = "rend_fin"
  /\ \E j \in 1..Len(operaciones) : \E n \in 1..Len(senales) :
       /\ senales[n].tipo = "COMPRA"
       /\ senales[n].datetime > operaciones[j].fecha_entrada
       /\ senales[n].datetime < operaciones[j].fecha_salida
       /\ senales[n].precio # operaciones[j].entrada

\* a position is open just before signal n: some earlier COMPRA has no
\* VENTA between it and n
AbiertaAntes(n) ==
  \E c \in 1..(n - 1) :
    /\ senales[c].tipo = "COMPRA"
    /\ \A v \in (c + 1)..(n - 1) : senales[v].tipo # "VENTA"

\* the VENTA signals among S that arrive while a position is open
Cierres(S) == {n \in S : senales[n].tipo = "VENTA" /\ AbiertaAntes(n)}

\* C2: the trades recorded are exactly those of the VENTA signals that
\* arrived while a position was open; a VENTA with no open position adds no
\* trade and leaves the position absent, and a list of VENTA signals alone
\* ends with zero trades and no summary.
C2_VentaSinPosicion ==
  EnReplay =>
    /\ {operaciones[j].fecha_salida : j \in 1..Len(operaciones)}
         = {senales[n].datetime : n \in Cierres(Procesadas)}
    /\ Len(operaciones) = Cardinality(Cierres(Procesadas))
    /\ (i > 0) => (posicion # None <=> AbiertaAntes(i))
    /\ (pc = "rend_fin" /\ \A n \in 1..Len(senales) : senales[n].tipo = "VENTA")
         => (operaciones = <<>> /\ resultado = None)

\* a VENTA has just been processed with no position open, after the early
\* return was passed
C2_Witness ==
  /\ pc = "rend_bucle"
  /\ i > 1
  /\ senales[i - 1].tipo = "VENTA"
  /\ ~AbiertaAntes(i - 1)
  /\ posicion = None

\* C3: the method returns None exactly when the replay of the whole list
\* closes no trade, for lists of every length.
C3_SinResumen ==
  pc = "rend_fin" =>
    (resultado = None <=> Cierres(1..Len(senales)) = {})

\* the early return was taken
C3_Witness ==
  /\ pc = "rend_fin"
  /\ Len(senales) = 1
  /\ i = 0
  /\ resultado = None

RECURSIVE SumaLista(_, _)
SumaLista(xs, n) == IF n = 0 THEN Num(0) ELSE FAdd(SumaLista(xs, n - 1), xs[n])

Ejemplo == <<Senal("COMPRA", "X", 1, Num(100)), Senal("VENTA", "X", 2, Num(110))>>

\* C4: in a summary every trade's return is (sell - buy) / buy * 100 of the
\* prices of its two signals, the count is the number of closed pairs, the
\* total is the sum of the returns, the win rate is winners / count * 100 and
\* the average is total / count; [COMPRA@100, VENTA@110] gives 1 trade,
\* return 10, win rate 100.
C4_Resumen ==
  (pc = "rend_fin" /\ resultado # None) =>
    LET r == resultado[1]
        ops == r.operaciones
        n == Len(ops)
        rets == [j \in 1..n |-> ops[j].rendimiento]
    IN  /\ n = Cardinality(Cierres(1..Len(senales)))
        /\ r.num_operaciones = n
        /\ \A j \in 1..n :
             /\ ops[j].entrada = SenalEn(ops[j].fecha_entrada).precio
             /\ ops[j].salida = SenalEn(ops[j].fecha_salida).precio
             /\ ops[j].rendimiento =
                  FMul(FDiv(FSub(ops[j].salida, ops[j].entrada),
                            ops[j].entrada), Num(100))
        /\ r.rendimiento_total = SumaLista(rets, n)
        /\ r.tasa_acierto =
             FMul(FDiv(Num(Cardinality({j \in 1..n : FGt(rets[j], Num(0))})),
                       Num(n)), Num(100))
        /\ r.rendimiento_promedio = FDiv(SumaLista(rets, n), Num(n))
        /\ senales = Ejemplo =>
             /\ n = 1
             /\ r.rendimiento_total = Num(10)
             /\ r.tasa_acierto = Num(100)

\* the example of the claim has been replayed
C4_Witness ==
  /\ pc = "rend_fin"
  /\ senales = Ejemplo
  /\ resultado # None
  /\ resultado[1].operaciones[1].rendimiento = Num(10)

----------------------------------------------------------------------------
(* calcular_vwap *)

Bar(symbol, datetime, high, low, close, volume) ==
  [symbol |-> symbol, datetime |-> datetime, high |-> high, low |-> low,
   close |-> close, volume |-> volume]

\* (df['high'] + df['low'] + df['close']) / 3
TypicalPrice(bar) == FDiv(FAdd(FAdd(bar.high, bar.low), bar.close), Num(3))

\* the mutated loop body: the guard admits a zero cumulative volume
VwapPasoSinGuarda(acc, bar) ==
  LET cpv == FAdd(acc.cumulative_pv, FMul(TypicalPrice(bar), bar.volume))
      cv == FAdd(acc.cumulative_volume, bar.volume)
      vwap == IF FGe(cv, Num(0)) THEN FDiv(cpv, cv) ELSE TypicalPrice(bar)
  IN  [cumulative_pv |-> cpv, cumulative_volume |-> cv,
       vwap_values |-> Append(acc.vwap_values, vwap)]

\* the mutated loop body: the running sum is divided by the bar's own volume
VwapPasoVolumenBarra(acc, bar) ==
  LET cpv == FAdd(acc.cumulative_pv, FMul(TypicalPrice(bar), bar.volume))
      cv == FAdd(acc.cumulative_volume, bar.volume)
      vwap == IF FGt(bar.volume, Num(0)) THEN FDiv(cpv, bar.volume)
              ELSE TypicalPrice(bar)
  IN  [cumulative_pv |-> cpv, cumulative_volume |-> cv,
       vwap_values |-> Append(acc.vwap_values, vwap)]

\* one iteration of "for i in range(len(df))"
VwapPaso(acc, bar) ==
  LET cpv == FAdd(acc.cumulative_pv, FMul(TypicalPrice(bar), bar.volume))
      cv == FAdd(acc.cumulative_volume, bar.volume)
      vwap == IF FGt(cv, Num(0)) THEN FDiv(cpv, cv) ELSE TypicalPrice(bar)
  IN  [cumulative_pv |-> cpv, cumulative_volume |-> cv,
       vwap_values |-> Append(acc.vwap_values, vwap)]

\* cumulative_pv = 0, cumulative_volume = 0, vwap_values = []
VwapInicio ==
  [cumulative_pv |-> Num(0), cumulative_volume |-> Num(0),
   vwap_values |-> <<>>]

\* the loop's state after each of the first n iterations
RECURSIVE VwapBucle(_, _)
VwapBucle(bars, n) ==
  IF n = 0 THEN <<>>
  ELSE LET p == VwapBucle(bars, n - 1)
       IN  Append(p, VwapPaso(IF n = 1 THEN VwapInicio ELSE p[n - 1],
                              bars[n]))

\* the whole method, as calcular_indicadores calls it
calcular_vwap(bars) ==
  IF bars = <<>> THEN <<>>
  ELSE VwapBucle(bars, Len(bars))[Len(bars)].vwap_values

\* one bar processed
VwapIter ==
  /\ pc = "vwap_bucle"
  /\ i <= Len(df)
  /\ LET acc == VwapPaso([cumulative_pv |-> cumulative_pv,
                          cumulative_volume |-> cumulative_volume,
                          vwap_values |-> vwap_values], df[i])
     IN  /\ cumulative_pv' = acc.cumulative_pv
         /\ cumulative_volume' = acc.cumulative_volume
         /\ vwap_values' = acc.vwap_values
  /\ i' = i + 1
  /\ UNCHANGED <<pc, df, ind, senales, posicion, operaciones, resultado, feed,
                 sidx, all_dataframes, all_senales, all_rendimientos>>

\* the loop is over: the series is returned
VwapFin ==
  /\ pc = "vwap_bucle"
  /\ i > Len(df)
  /\ pc' = "vwap_fin"
  /\ UNCHANGED <<df, ind, i, vwap_values, cumulative_pv, cumulative_volume,
                 senales, posicion, operaciones, resultado, feed, sidx,
                 all_dataframes, all_senales, all_rendimientos>>

Volumenes == {Num(0), Num(1), Num(3)}

\* <<high, low, close>>: a flat bar at 1, a flat bar at 2, and a bar that
\* reached 2 and closed at its low of 1
Velas == {<<Num(1), Num(1), Num(1)>>, <<Num(2), Num(2), Num(2)>>,
          <<Num(2), Num(1), Num(1)>>}

FormasBarra == {<<v[1], v[2], v[3], w>> : v \in Velas, w \in Volumenes}

SeriesCortas ==
  UNION {{[j \in 1..n |-> Bar("X", j, f[j][1], f[j][2], f[j][3], f[j][4])] :
             f \in [1..n -> FormasBarra]} : n \in 0..MaxBars}

InitVwap ==
  /\ pc = "vwap_bucle"
  /\ df \in SeriesCortas
  /\ i = 1
  /\ vwap_values = <<>>
  /\ cumulative_pv = Num(0)
  /\ cumulative_volume = Num(0)
  /\ ind = None
  /\ senales = <<>>
  /\ posicion = None
  /\ operaciones = <<>>
  /\ resultado = None
  /\ feed = <<>>
  /\ sidx = 0
  /\ all_dataframes = <<>>
  /\ all_senales = <<>>
  /\ all_rendimientos = <<>>

NextVwap == VwapIter \/ VwapFin

SpecVwap == InitVwap /\ [][NextVwap]_vars

----------------------------------------------------------------------------
(* Properties of calcular_vwap, checked under SpecVwap *)

TypicalPrices == [j \in 1..Len(df) |-> TypicalPrice(df[j])]

\* v lies within [min(tp[1..k]), max(tp[1..k])]
EnRango(tp, v, k) ==
  /\ \E j \in 1..k : FLe(tp[j], v)
  /\ \E j \in 1..k : FLe(v, tp[j])

\* the value at index k is the one the method gives on bars 1..k alone
SoloPrefijo(k) == vwap_values[k] = calcular_vwap(SubSeq(df, 1, k))[k]

\* C7 as stated: every value lies within the typical prices seen so far and
\* depends only on the bars up to its index.
C7_DentroDeRango ==
  LET tp == TypicalPrices
  IN  \A k \in 1..Len(vwap_values) :
        EnRango(tp, vwap_values[k], k) /\ SoloPrefijo(k)

\* the running sums of xs[1..n], unrounded
RECURSIVE XSumas(_, _)
XSumas(xs, n) ==
  IF n = 0 THEN <<>>
  ELSE LET p == XSumas(xs, n - 1)
       IN  Append(p, IF n = 1 THEN xs[1] ELSE XAdd(p[n - 1], xs[n]))

Representable(x) == Round(x) = x

\* C7 amended: every value depends only on the bars up to its index, and
\* lies within the typical prices seen so far whenever the products, the
\* running sums and the quotient up to that index are computed without
\* rounding.
C7_RangoSinRedondeo ==
  LET n == Len(vwap_values)
      tp == TypicalPrices
      pv == [j \in 1..n |-> XMul(tp[j], df[j].volume)]
      xpv == XSumas(pv, n)
      xvol == XSumas([j \in 1..n |-> df[j].volume], n)
      exacto == [j \in 1..n |-> /\ Representable(pv[j])
                                /\ Representable(xpv[j])
                                /\ Representable(xvol[j])]
  IN  \A k \in 1..n :
        /\ SoloPrefijo(k)
        /\ ( /\ \A j \in 1..k : exacto[j]
             /\ xvol[k][1] # 0 => Representable(XMul(xpv[k], XInv(xvol[k]))) )
           => EnRango(tp, vwap_values[k], k)

\* a value computed from two bars of different typical prices, both traded,
\* that lies strictly between the two prices
C7_Witness ==
  /\ Len(vwap_values) = 2
  /\ df[1].volume # Num(0)
  /\ df[2].volume # Num(0)
  /\ \E a, b \in 1..2 :
       /\ FLt(TypicalPrice(df[a]), vwap_values[2])
       /\ FLt(vwap_values[2], TypicalPrice(df[b]))
  /\ vwap_values[2] =
       XMul(XAdd(XMul(TypicalPrice(df[1]), df[1].volume),
                 XMul(TypicalPrice(df[2]), df[2].volume)),
            XInv(XAdd(df[1].volume, df[2].volume)))

\* the running sums of xs[1..n] as the loop accumulates them from 0
RECURSIVE FSumas(_, _)
FSumas(xs, n) ==
  IF n = 0 THEN <<>>
  ELSE LET p == FSumas(xs, n - 1)
       IN  Append(p, FAdd(IF n = 1 THEN Num(0) ELSE p[n - 1], xs[n]))

\* C8: where the cumulative volume up to the index is zero the value is the
\* bar's own typical price (a number: nothing was divided); elsewhere it is
\* cumulative typical_price * volume over cumulative volume.
C8_VolumenCero ==
  LET n == Len(vwap_values)
      tp == TypicalPrices
      cpv == FSumas([j \in 1..n |-> FMul(tp[j], df[j].volume)], n)
      cvol == FSumas([j \in 1..n |-> df[j].volume], n)
  IN  \A k \in 1..n :
        /\ cvol[k] = Num(0) =>
             vwap_values[k] = tp[k] /\ IsFinite(vwap_values[k])
        /\ cvol[k] # Num(0) => vwap_values[k] = FDiv(cpv[k], cvol[k])

\* a series that starts without volume and trades later
C8_Witness ==
  /\ pc = "vwap_fin"
  /\ Len(vwap_values) = 3
  /\ df[1].volume = Num(0)
  /\ df[2].volume = Num(0)
  /\ df[3].volume # Num(0)
  /\ vwap_values[2] # vwap_values[3]

----------------------------------------------------------------------------
(* calcular_indicadores: the TA-Lib series and the derived columns *)

ema_rapida == 12
ema_lenta == 26
RsiPeriod == 14
MacdFastPeriod == 12
MacdSlowPeriod == 26
MacdSignalPeriod == 9

Closes(bars) == [j \in 1..Len(bars) |-> bars[j].close]

\* TA-Lib's smoothing factor of a period
PerToK(period) == FDiv(Num(2), Num(period + 1))

\* xs[a] + ... + xs[a + n - 1], accumulated in that order
RECURSIVE SumaTramo(_, _, _)
SumaTramo(xs, a, n) ==
  IF n = 0 THEN Num(0) ELSE FAdd(SumaTramo(xs, a, n - 1), xs[a + n - 1])

\* TA-Lib's EMA over xs, positions 1..n: seeded at position
\* start + period - 1 with the mean of the period values from start on,
\* unavailable (NaN) before, then prev + k * (x - prev)
RECURSIVE EmaSerie(_, _, _, _)
EmaSerie(xs, period, start, n) ==
  IF n = 0 THEN <<>>
  ELSE LET p == EmaSerie(xs, period, start, n - 1)
       IN  Append(p,
             IF n < start + period - 1 THEN NaN
             ELSE IF n = start + period - 1
                  THEN FDiv(SumaTramo(xs, start, period), Num(period))
                  ELSE FAdd(FMul(FSub(xs[n], p[n - 1]), PerToK(period)),
                            p[n - 1]))

\* talib.EMA(close, timeperiod): the first timeperiod - 1 values are NaN
TalibEMA(xs, period) == EmaSerie(xs, period, 1, Len(xs))

\* talib.RSI(close, timeperiod=14), Wilder's smoothing: the first 14 values
\* are NaN; the value is 0 when gains and losses are both zero (TA-Lib
\* tests |gain + loss| < 1e-8, which the sums of this model meet only at 0)
RsiPaso(st, diff, n) ==
  LET smoothed == n > RsiPeriod + 1
      available == n >= RsiPeriod + 1
      g0 == IF smoothed THEN FMul(st.prevGain, Num(RsiPeriod - 1))
            ELSE st.prevGain
      l0 == IF smoothed THEN FMul(st.prevLoss, Num(RsiPeriod - 1))
            ELSE st.prevLoss
      g1 == IF FLt(diff, Num(0)) THEN g0 ELSE FAdd(g0, diff)
      l1 == IF FLt(diff, Num(0)) THEN FSub(l0, diff) ELSE l0
      g == IF available THEN FDiv(g1, Num(RsiPeriod)) ELSE g1
      l == IF available THEN FDiv(l1, Num(RsiPeriod)) ELSE l1
      t == FAdd(g, l)
  IN  [prevGain |-> g, prevLoss |-> l,
       rsi |-> IF ~available THEN NaN
               ELSE IF t # Num(0) THEN FMul(Num(100), FDiv(g, t))
               ELSE Num(0)]

\* prevGain, prevLoss and the output after each of the first n positions
RECURSIVE RsiBucle(_, _)
RsiBucle(xs, n) ==
  IF n = 0 THEN <<>>
  ELSE LET p == RsiBucle(xs, n - 1)
       IN  Append(p, IF n = 1
                     THEN [prevGain |-> Num(0), prevLoss |-> Num(0),
                           rsi |-> NaN]
                     ELSE RsiPaso(p[n - 1], FSub(xs[n], xs[n - 1]), n))

TalibRSI(xs) ==
  LET sts == RsiBucle(xs, Len(xs)) IN [j \in 1..Len(xs) |-> sts[j].rsi]

\* talib.MACD(close) with the default periods 12, 26, 9: both EMAs are
\* seeded at position 26 (the fast one on the 12 values before it), the
\* signal line is the EMA 9 of their difference, and the three outputs are
\* NaN for the first 26 - 1 + 9 - 1 = 33 positions
MacdLookback == (MacdSlowPeriod - 1) + (MacdSignalPeriod - 1)

TalibMACD(xs) ==
  LET n == Len(xs)
      fast == EmaSerie(xs, MacdFastPeriod,
                       MacdSlowPeriod - MacdFastPeriod + 1, n)
      slow == EmaSerie(xs, MacdSlowPeriod, 1, n)
      linea == [j \in 1..n |-> FSub(fast[j], slow[j])]
      senal == EmaSerie(linea, MacdSignalPeriod, MacdSlowPeriod, n)
  IN  [j \in 1..n |->
         IF j <= MacdLookback
         THEN [macd |-> NaN, macd_signal |-> NaN, macd_hist |-> NaN]
         ELSE [macd |-> linea[j], macd_signal |-> senal[j],
               macd_hist |-> FSub(linea[j], senal[j])]]

\* series.shift(1): the previous value, NaN at the first position
Shift(xs, j) == IF j = 1 THEN NaN ELSE xs[j - 1]

\* (a > b) & (a.shift(1) <= b.shift(1))
CruzaArriba(a, b, j) ==
  FGt(a[j], b[j]) /\ FLe(Shift(a, j), Shift(b, j))

\* (a < b) & (a.shift(1) >= b.shift(1))
CruzaAbajo(a, b, j) ==
  FLt(a[j], b[j]) /\ FGe(Shift(a, j), Shift(b, j))

\* df['cruce_alcista'] = df['cruce_alcista_emas'] & df['precio_sobre_vwap']
CruceAlcista(f) == f.cruce_alcista_emas /\ f.precio_sobre_vwap

\* the mutated column: the line of cruce_alcista copied without its edits
CruceBajistaCopiada(f) == f.cruce_alcista_emas /\ f.precio_sobre_vwap

\* df['cruce_bajista'] = df['cruce_bajista_emas'] & ~df['precio_sobre_vwap']
CruceBajista(f) == f.cruce_bajista_emas /\ ~f.precio_sobre_vwap

\* np.where(..., 'ALCISTA', np.where(..., 'BAJISTA', 'NEUTRAL'))
Tendencia(er, el, close, vwap) ==
  IF FGt(er, el) /\ FGt(close, vwap) THEN "ALCISTA"
  ELSE IF FLt(er, el) /\ FLt(close, vwap) THEN "BAJISTA"
  ELSE "NEUTRAL"

\* the annotated rows of bars: row j is df.iloc[j - 1] after the method
calcular_indicadores(bars) ==
  LET n == Len(bars)
      c == Closes(bars)
      er == TalibEMA(c, ema_rapida)
      el == TalibEMA(c, ema_lenta)
      vw == calcular_vwap(bars)
      rsi == TalibRSI(c)
      m == TalibMACD(c)
      cruces == [j \in 1..n |->
                   [cruce_alcista_emas |-> CruzaArriba(er, el, j),
                    cruce_bajista_emas |-> CruzaAbajo(er, el, j),
                    precio_sobre_vwap |-> FGt(c[j], vw[j]),
                    cruce_alcista_vwap |-> CruzaArriba(c, vw, j),
                    cruce_bajista_vwap |-> CruzaAbajo(c, vw, j)]]
  IN  [j \in 1..n |->
         [symbol |-> bars[j].symbol,
          datetime |-> bars[j].datetime,
          close |-> c[j],
          ema_rapida |-> er[j],
          ema_lenta |-> el[j],
          vwap |-> vw[j],
          diferencia_emas |-> FSub(er[j], el[j]),
          precio_vs_vwap |->
            FMul(FDiv(FSub(c[j], vw[j]), vw[j]), Num(100)),
          cruce_alcista_emas |-> cruces[j].cruce_alcista_emas,
          cruce_bajista_emas |-> cruces[j].cruce_bajista_emas,
          precio_sobre_vwap |-> cruces[j].precio_sobre_vwap,
          cruce_alcista_vwap |-> cruces[j].cruce_alcista_vwap,
          cruce_bajista_vwap |-> cruces[j].cruce_bajista_vwap,
          cruce_alcista |-> CruceAlcista(cruces[j]),
          cruce_bajista |-> CruceBajista(cruces[j]),
          tendencia |-> Tendencia(er[j], el[j], c[j], vw[j]),
          rsi |-> rsi[j],
          macd |-> m[j].macd,
          macd_signal |-> m[j].macd_signal,
          macd_hist |-> m[j].macd_hist]]

----------------------------------------------------------------------------
(* generar_señales *)

\* RSI < 70 and MACD above its signal line, each one tag
confirmar_senal_compra(fila) ==
  (IF FLt(fila.rsi, Num(70)) THEN <<"RSI_OK">> ELSE <<>>)
    \o (IF FGt(fila.macd, fila.macd_signal) THEN <<"MACD_OK">> ELSE <<>>)

\* RSI > 30 and MACD below its signal line, each one tag
confirmar_senal_venta(fila) ==
  (IF FGt(fila.rsi, Num(30)) THEN <<"RSI_OK">> ELSE <<>>)
    \o (IF FLt(fila.macd, fila.macd_signal) THEN <<"MACD_OK">> ELSE <<>>)

SenalDe(tipo, fila, confirmacion) ==
  [tipo |-> tipo, symbol |-> fila.symbol, datetime |-> fila.datetime,
   precio |-> fila.close, ema_rapida |-> fila.ema_rapida,
   ema_lenta |-> fila.ema_lenta, vwap |-> fila.vwap,
   precio_vs_vwap |-> fila.precio_vs_vwap, rsi |-> fila.rsi,
   macd |-> fila.macd, confirmacion |-> confirmacion]

\* the mutated loop body: a signal without confirmation is not emitted
GenPasoConfirmada(ss, fila) ==
  IF fila.cruce_alcista /\ confirmar_senal_compra(fila) # <<>>
  THEN Append(ss, SenalDe("COMPRA", fila, confirmar_senal_compra(fila)))
  ELSE IF fila.cruce_bajista /\ confirmar_senal_venta(fila) # <<>>
  THEN Append(ss, SenalDe("VENTA", fila, confirmar_senal_venta(fila)))
  ELSE ss

\* one iteration of "for i in range(len(df))"
GenPaso(ss, fila) ==
  IF fila.cruce_alcista
  THEN Append(ss, SenalDe("COMPRA", fila, confirmar_senal_compra(fila)))
  ELSE IF fila.cruce_bajista
  THEN Append(ss, SenalDe("VENTA", fila, confirmar_senal_venta(fila)))
  ELSE ss

RECURSIVE GenBucle(_, _)
GenBucle(filas, n) ==
  IF n = 0 THEN <<>>
  ELSE GenPaso(GenBucle(filas, n - 1), filas[n])

\* the whole method, as ejecutar_estrategia calls it
generar_senales(filas) == GenBucle(filas, Len(filas))

\* calcular_indicadores has annotated df; the scan starts
CalcularIndicadores ==
  /\ pc = "ind_inicio"
  /\ ind' = calcular_indicadores(df)
  /\ senales' = <<>>
  /\ i' = 1
  /\ pc' = "gen_bucle"
  /\ UNCHANGED <<df, vwap_values, cumulative_pv, cumulative_volume, posicion,
                 operaciones, resultado, feed, sidx, all_dataframes,
                 all_senales, all_rendimientos>>

\* one bar scanned
GenIter ==
  /\ pc = "gen_bucle"
  /\ i <= Len(ind)
  /\ senales' = GenPaso(senales, ind[i])
  /\ i' = i + 1
  /\ UNCHANGED <<pc, df, ind, vwap_values, cumulative_pv, cumulative_volume,
                 posicion, operaciones, resultado, feed, sidx, all_dataframes,
                 all_senales, all_rendimientos>>

\* the scan is over: the list is returned
GenFin ==
  /\ pc = "gen_bucle"
  /\ i > Len(ind)
  /\ pc' = "gen_fin"
  /\ UNCHANGED <<df, ind, i, vwap_values, cumulative_pv, cumulative_volume,
                 senales, posicion, operaciones, resultado, feed, sidx,
                 all_dataframes, all_senales, all_rendimientos>>

PrecioBase == Num(2)

PreciosCola == {Num(1), Num(2), Num(3)}

BarraPlana(symbol, j, precio, volumen) ==
  Bar(symbol, j, precio, precio, precio, volumen)

\* a quiet market at PrecioBase for flat bars, then the closes of cola
SeriePlana(symbol, flat, volumen, cola) ==
  [j \in 1..(flat + Len(cola)) |->
     IF j <= flat THEN BarraPlana(symbol, j, PrecioBase, volumen)
     ELSE BarraPlana(symbol, j, cola[j - flat], Num(1))]

Colas == UNION {[1..n -> PreciosCola] : n \in 0..MaxTail}

SeriesPlanas ==
  {SeriePlana("X", flat, volumen, cola) :
     flat \in 0..MaxFlat, volumen \in {Num(0), Num(1)}, cola \in Colas}

InitInd ==
  /\ pc = "ind_inicio"
  /\ df \in SeriesPlanas
  /\ ind = None
  /\ i = 0
  /\ vwap_values = <<>>
  /\ cumulative_pv = Num(0)
  /\ cumulative_volume = Num(0)
  /\ senales = <<>>
  /\ posicion = None
  /\ operaciones = <<>>
  /\ resultado = None
  /\ feed = <<>>
  /\ sidx = 0
  /\ all_dataframes = <<>>
  /\ all_senales = <<>>
  /\ all_rendimientos = <<>>

NextInd == CalcularIndicadores \/ GenIter \/ GenFin

SpecInd == InitInd /\ [][NextInd]_vars

----------------------------------------------------------------------------
(* Properties of the indicator columns and of the scan, under SpecInd *)

\* C5: at no index are the combined bullish and the combined bearish flag
\* both set.
C5_Excluyentes ==
  \A j \in 1..Len(ind) : ~(ind[j].cruce_alcista /\ ind[j].cruce_bajista)

\* one series in which each of the two combined flags is set somewhere
C5_Witness ==
  \E j, k \in 1..Len(ind) : ind[j].cruce_alcista /\ ind[k].cruce_bajista

Max2(a, b) == IF a >= b THEN a ELSE b

\* the largest lookback among the fast EMA, the slow EMA, the RSI and the
\* MACD with its signal line
MaxLookback ==
  Max2(Max2(ema_rapida - 1, ema_lenta - 1), Max2(RsiPeriod, MacdLookback))

\* C6 as stated: no signal is emitted at any of the first MaxLookback bars,
\* and no signal carries an unavailable indicator value.
C6_SinSenalEnLookback ==
  \A a \in 1..Len(senales) :
    /\ senales[a].datetime > MaxLookback
    /\ ~IsNaN(senales[a].ema_rapida)
    /\ ~IsNaN(senales[a].ema_lenta)
    /\ ~IsNaN(senales[a].rsi)
    /\ ~IsNaN(senales[a].macd)

\* the bars scanned so far whose combined flags ask for a signal
Emisoras == {j \in 1..(i - 1) : ind[j].cruce_alcista \/ ind[j].cruce_bajista}

\* C9: the list is in the bars' time order and holds, for every scanned bar
\* with a combined flag set, exactly one signal (COMPRA if the bullish flag
\* is set, else VENTA) and none for any other bar, whatever the confirmation
\* list of the bar is.
C9_UnaPorBarra ==
  pc \in {"gen_bucle", "gen_fin"} =>
    /\ Len(senales) = Cardinality(Emisoras)
    /\ \A a \in 1..(Len(senales) - 1) :
         senales[a].datetime < senales[a + 1].datetime
    /\ \A j \in Emisoras : \E a \in 1..Len(senales) :
         /\ senales[a].datetime = ind[j].datetime
         /\ senales[a].precio = df[j].close
         /\ senales[a].tipo =
              (IF ind[j].cruce_alcista THEN "COMPRA" ELSE "VENTA")
         /\ senales[a].confirmacion =
              (IF ind[j].cruce_alcista THEN confirmar_senal_compra(ind[j])
               ELSE confirmar_senal_venta(ind[j]))

\* a scan that emitted a COMPRA and a VENTA, one of them with an empty
\* confirmation list
C9_Witness ==
  /\ pc = "gen_fin"
  /\ \E a, b \in 1..Len(senales) :
       /\ senales[a].tipo = "COMPRA"
       /\ senales[b].tipo = "VENTA"
       /\ senales[a].confirmacion = <<>>

----------------------------------------------------------------------------
(* ejecutar_estrategia: one pass over self.symbols *)

\* the symbols main() passes to the constructor
Listado ==
  <<"BABY/USDT", "FUN/USDT", "SHELL/USDT", "PUNDIX/USDT", "CATI/USDT",
    "ME/USDT", "NFP/USDT", "LUNA/USDT", "SHIB/USDT", "DOGE/USDT", "ELF/USDT">>

symbols == SubSeq(Listado, 1, NumSymbols)

\* what exchange.fetch_ohlcv does for a symbol: it raises, or it returns a
\* list of candles, which may be empty
Lanza == [ok |-> FALSE, ohlcv |-> <<>>]

Devuelve(velas) == [ok |-> TRUE, ohlcv |-> velas]

\* closes after 26 quiet bars: nothing, a rise, a rise and a fall
Respuestas ==
  {Lanza, Devuelve(<<>>), Devuelve(<<Num(2), Num(2), Num(2)>>)}
    \cup {Devuelve([j \in 1..(ema_lenta + Len(cola)) |->
                      IF j <= ema_lenta THEN PrecioBase
                      ELSE cola[j - ema_lenta]]) :
            cola \in {<<Num(3)>>, <<Num(3), Num(1)>>}}

\* obtener_datos: None when the exchange raised, else the frame of the
\* candles with the symbol column added (wrapped in a one-element tuple)
obtener_datos(symbol, respuesta) ==
  IF respuesta.ok
  THEN <<[j \in 1..Len(respuesta.ohlcv) |->
            BarraPlana(symbol, j, respuesta.ohlcv[j], Num(1))]>>
  ELSE None

\* all_rendimientos[symbol] = rendimiento
DictSet(d, k, v) ==
  [x \in (DOMAIN d) \cup {k} |-> IF x = k THEN v ELSE d[x]]

\* df = self.obtener_datos(symbol, limit=200) is None: "continue"
RunOmite ==
  /\ pc = "run_bucle"
  /\ sidx <= Len(symbols)
  /\ obtener_datos(symbols[sidx], feed[sidx]) = None
  /\ sidx' = sidx + 1
  /\ UNCHANGED <<pc, df, ind, i, vwap_values, cumulative_pv,
                 cumulative_volume, senales, posicion, operaciones, resultado,
                 feed, all_dataframes, all_senales, all_rendimientos>>

\* df = self.obtener_datos(symbol, limit=200) is a frame
RunObtiene ==
  /\ pc = "run_bucle"
  /\ sidx <= Len(symbols)
  /\ obtener_datos(symbols[sidx], feed[sidx]) # None
  /\ df' = obtener_datos(symbols[sidx], feed[sidx])[1]
  /\ pc' = "run_indicadores"
  /\ UNCHANGED <<ind, i, vwap_values, cumulative_pv, cumulative_volume,
                 senales, posicion, operaciones, resultado, feed, sidx,
                 all_dataframes, all_senales, all_rendimientos>>

\* df = self.calcular_indicadores(df)
RunIndicadores ==
  /\ pc = "run_indicadores"
  /\ Len(df) > 0
  /\ ind' = calcular_indicadores(df)
  /\ pc' = "run_senales"
  /\ UNCHANGED <<df, i, vwap_values, cumulative_pv, cumulative_volume,
                 senales, posicion, operaciones, resultado, feed, sidx,
                 all_dataframes, all_senales, all_rendimientos>>

\* the frame has no row: talib.EMA rejects its empty close column (and
\* df.iloc[-1] would find no row); nothing catches the exception
RunAborta ==
  /\ pc = "run_indicadores"
  /\ Len(df) = 0
  /\ pc' = "run_abortado"
  /\ UNCHANGED <<df, ind, i, vwap_values, cumulative_pv, cumulative_volume,
                 senales, posicion, operaciones, resultado, feed, sidx,
                 all_dataframes, all_senales, all_rendimientos>>

\* señales = self.generar_señales(df); all_señales.extend(señales)
RunSenales ==
  /\ pc = "run_senales"
  /\ senales' = generar_senales(ind)
  /\ all_senales' = all_senales \o generar_senales(ind)
  /\ pc' = "run_rendimiento"
  /\ UNCHANGED <<df, ind, i, vwap_values, cumulative_pv, cumulative_volume,
                 posicion, operaciones, resultado, feed, sidx, all_dataframes,
                 all_rendimientos>>

\* rendimiento = self.calcular_rendimiento(df, señales), kept if truthy;
\* all_dataframes.append(df); next symbol
RunRendimiento ==
  /\ pc = "run_rendimiento"
  /\ resultado' = calcular_rendimiento(senales)
  /\ all_rendimientos' =
       IF calcular_rendimiento(senales) # None
       THEN DictSet(all_rendimientos, symbols[sidx],
                    calcular_rendimiento(senales)[1])
       ELSE all_rendimientos
  /\ all_dataframes' = Append(all_dataframes, ind)
  /\ sidx' = sidx + 1
  /\ pc' = "run_bucle"
  /\ UNCHANGED <<df, ind, i, vwap_values, cumulative_pv, cumulative_volume,
                 senales, posicion, operaciones, feed, all_senales>>

\* every symbol was visited: the frames are saved and the method returns
RunFin ==
  /\ pc = "run_bucle"
  /\ sidx > Len(symbols)
  /\ pc' = "run_fin"
  /\ UNCHANGED <<df, ind, i, vwap_values, cumulative_pv, cumulative_volume,
                 senales, posicion, operaciones, resultado, feed, sidx,
                 all_dataframes, all_senales, all_rendimientos>>

Init ==
  /\ pc = "run_bucle"
  /\ feed \in [1..Len(symbols) -> Respuestas]
  /\ sidx = 1
  /\ all_dataframes = <<>>
  /\ all_senales = <<>>
  /\ all_rendimientos = <<>>
  /\ df = <<>>
  /\ ind = None
  /\ i = 0
  /\ vwap_values = <<>>
  /\ cumulative_pv = Num(0)
  /\ cumulative_volume = Num(0)
  /\ senales = <<>>
  /\ posicion = None
  /\ operaciones = <<>>
  /\ resultado = None

Next ==
  \/ RunOmite
  \/ RunObtiene
  \/ RunIndicadores
  \/ RunAborta
  \/ RunSenales
  \/ RunRendimiento
  \/ RunFin

Spec == Init /\ [][Next]_vars

----------------------------------------------------------------------------
(* Property of the runner, checked under Spec *)

\* the symbols whose retrieval did not fail, in list order
Obtenidos == {k \in 1..Len(symbols) : feed[k].ok}

\* C10 as stated: the run is never aborted; a symbol whose retrieval fails
\* is skipped and contributes nothing, and the run ends having collected
\* the frame of every symbol whose retrieval succeeded.
C10_NuncaAborta ==
  /\ pc # "run_abortado"
  /\ \A a \in 1..Len(all_dataframes) : \E k \in Obtenidos :
       k < sidx /\ all_dataframes[a][1].symbol = symbols[k]
  /\ pc = "run_fin" => Len(all_dataframes) = Cardinality(Obtenidos)

====
